---- MODULE Spec2Model ----
(***************************************************************************)
(* Model of audio_script.py: the command dispatcher (main), modify_audio,  *)
(* transcribe_audio with its validate / convert / recurse fallback, and    *)
(* _convert_to_mono_pcm.  The call stack of transcribe_audio is explicit,  *)
(* so that the nesting of `with wave.open(...)` blocks, the recursion and  *)
(* the propagation of uncaught exceptions are all visible as state.        *)
(***************************************************************************)
EXTENDS Integers, Sequences, FiniteSets, TLC

VARIABLES argv, status, cause, stack, fs, log, handles, events, mainCalls

vars == <<argv, status, cause, stack, fs, log, handles, events, mainCalls>>

(***************************************************************************)
(* Bounds of the model                                                     *)
(***************************************************************************)
\* the longest input holds MaxChunks full chunks (plus the variants below)
MaxChunks == 2
\* depth at which the interpreter raises RecursionError (1000 in CPython)
RecursionLimit == 3

(***************************************************************************)
(* Program constants                                                       *)
(***************************************************************************)
\* wf.readframes(4000)
ChunkFrames == 4000
\* sample_rate: int = 16000
DefaultSampleRate == 16000

\* MAIN_PATH = Path(__file__).parent.resolve()
MAIN_PATH == <<"MAIN">>

(***************************************************************************)
(* Input domains                                                           *)
(***************************************************************************)
\* file names, character by character: no suffix, one suffix, two suffixes,
\* a leading dot, a trailing dot, two leading dots
FileNames ==
    {<<"a">>,
     <<"a", ".", "b">>,
     <<"a", ".", "b", ".", "c">>,
     <<".", "a">>,
     <<"a", ".">>,
     <<".", ".", "a">>}

InputDirs == {<<>>, <<"in", "sub">>}

InputPaths == [dir : InputDirs, name : FileNames]

Channels == {1, 2}
SampleWidths == {1, 2, 3, 4}
FrameRates == {8000, 16000, 44100}
Headers == [nchannels : Channels, sampwidth : SampleWidths, framerate : FrameRates]

\* frame counts around the chunk boundaries: none, one frame, one full
\* chunk, a last chunk of one frame, MaxChunks full chunks
FrameCounts ==
    {0, 1, ChunkFrames, (MaxChunks - 1) * ChunkFrames + 1, MaxChunks * ChunkFrames}

NoHeader == [nchannels |-> 0, sampwidth |-> 0, framerate |-> 0]
NoPath == [dir |-> <<>>, name |-> <<>>]

\* contents of a file: a RIFF/WAVE PCM file, anything else, or written JSON text
WavContent(h, n, g) == [kind |-> "wav", hdr |-> h, nframes |-> n, gain |-> g, body |-> <<>>]
JunkContent == [kind |-> "junk", hdr |-> NoHeader, nframes |-> 0, gain |-> 0, body |-> <<>>]
TextContent(t) == [kind |-> "text", hdr |-> NoHeader, nframes |-> 0, gain |-> 0, body |-> t]
\* a file opened for writing and not written yet
EmptyContent == [kind |-> "empty", hdr |-> NoHeader, nframes |-> 0, gain |-> 0, body |-> <<>>]

InputContents == {JunkContent} \cup {WavContent(h, n, 0) : h \in Headers, n \in FrameCounts}

CommandStrings == {"modify", "transcribe", "delete"}
Speeds == {1, 2}
Volumes == {0, 6}
ModelPaths == {"None", "models/missing", "models/ru"}

\* the command lines tried: options a command does not read keep their defaults
Argvs ==
    {[command |-> "modify", input_path |-> p, speed |-> s, volume |-> v, model_path |-> "None"] :
        p \in InputPaths, s \in Speeds, v \in Volumes}
    \cup
    {[command |-> c, input_path |-> p, speed |-> 1, volume |-> 0, model_path |-> m] :
        c \in {"transcribe"}, p \in InputPaths, m \in ModelPaths}
    \cup
    {[command |-> c, input_path |-> p, speed |-> 1, volume |-> 0, model_path |-> "None"] :
        c \in CommandStrings \ {"modify", "transcribe"}, p \in InputPaths}

(***************************************************************************)
(* File system                                                             *)
(***************************************************************************)
Exists(files, p) == \E f \in files : f.path = p
Lookup(files, p) == (CHOOSE f \in files : f.path = p).content
WriteFile(files, p, c) == {f \in files : f.path # p} \cup {[path |-> p, content |-> c]}

(***************************************************************************)
(* pathlib                                                                 *)
(***************************************************************************)
\* str.rfind('.') + 1, 0 when there is no dot
RFindDot(name) ==
    LET I == {i \in 1 .. Len(name) : name[i] = "."}
    IN  IF I = {} THEN 0 ELSE CHOOSE i \in I : \A j \in I : j <= i

\* PurePath.stem: the name without its last suffix; a leading or a trailing
\* dot does not start a suffix
Stem(name) ==
    LET i == RFindDot(name)
    IN  IF 1 < i /\ i < Len(name) THEN SubSeq(name, 1, i - 1) ELSE name

DotWav == <<".", "w", "a", "v">>
DotJson == <<".", "j", "s", "o", "n">>

\* save_path / f"{input_path.stem}.wav" under results/modified
ModifiedPath(input_path) ==
    [dir |-> MAIN_PATH \o <<"results", "modified">>, name |-> Stem(input_path.name) \o DotWav]

\* save_path / f"{input_path.stem}.wav" under results/temp
TempPathByName(input_path) ==
    [dir |-> MAIN_PATH \o <<"results", "temp">>, name |-> input_path.name \o DotWav]

TempPath(input_path) ==
    [dir |-> MAIN_PATH \o <<"results", "temp">>, name |-> Stem(input_path.name) \o DotWav]

\* save_path / f"{input_path.stem}.json" under results/transcriptions
TranscriptionPath(input_path) ==
    [dir |-> MAIN_PATH \o <<"results", "transcriptions">>, name |-> Stem(input_path.name) \o DotJson]

(***************************************************************************)
(* json                                                                    *)
(***************************************************************************)
\* JSON text is kept apart from the object it encodes
JsonDumps(obj) == [text |-> obj]
JsonLoads(t) == t.text

(***************************************************************************)
(* argparse and the Commands enum                                          *)
(***************************************************************************)
\* choices=["modify", "transcribe"]
Choices == {"modify", "transcribe"}

\* Commands(args.command): the enum member with that value
Commands(s) ==
    IF s = "modify" THEN "Commands.MODIFY"
    ELSE IF s = "transcribe" THEN "Commands.TRANSCRIBE"
    ELSE "ValueError"

\* the match statement of main: the operations the command selects
MainMatchNoTranscribe(command) ==
    IF command = "Commands.MODIFY" THEN {"modify_audio"} ELSE {}

MainMatch(command) ==
    IF command = "Commands.MODIFY" THEN {"modify_audio"}
    ELSE IF command = "Commands.TRANSCRIBE" THEN {"transcribe_audio"}
    ELSE {}

(***************************************************************************)
(* Validity check of transcribe_audio                                      *)
(***************************************************************************)
NeedsConversionNo8000(h) ==
    \/ h.nchannels # 1
    \/ h.sampwidth # 2
    \/ h.framerate \notin {16000}

\* the condition of the if statement: true when the file has to be converted
NeedsConversion(h) ==
    \/ h.nchannels # 1
    \/ h.sampwidth # 2
    \/ h.framerate \notin {8000, 16000}

(***************************************************************************)
(* pydub                                                                   *)
(***************************************************************************)
\* AudioSegment.from_file / from_wav: the decoded buffer keeps the file's
\* channel count, frame rate and sample width, except that 24-bit samples
\* are widened to 32 bits on load
FromFile(c) ==
    [hdr |-> [c.hdr EXCEPT !.sampwidth = IF @ = 3 THEN 4 ELSE @],
     nframes |-> c.nframes, gain |-> c.gain]

SetChannelsStereo(audio, n) == [audio EXCEPT !.hdr.nchannels = 2]

\* audio.set_channels(n): down/up-mix, same number of frames
SetChannels(audio, n) == [audio EXCEPT !.hdr.nchannels = n]

\* audio.set_frame_rate(r): resample, the duration is kept
SetFrameRate(audio, r) ==
    IF audio.hdr.framerate = r THEN audio
    ELSE [audio EXCEPT !.hdr.framerate = r,
                       !.nframes = (audio.nframes * r) \div audio.hdr.framerate]

\* audio.export(path, format="wav")
Export(files, audio, p) == WriteFile(files, p, WavContent(audio.hdr, audio.nframes, audio.gain))

\* the buffer _convert_to_mono_pcm exports: nothing sets the sample width
ConvertAudio(c, sample_rate) == SetFrameRate(SetChannels(FromFile(c), 1), sample_rate)

(***************************************************************************)
(* Initial state: the command line and the file it names                   *)
(***************************************************************************)
NoCalls == [modify_audio |-> 0, transcribe_audio |-> 0]

Init ==
    /\ argv \in Argvs
    /\ fs \in {{}} \cup {{[path |-> argv.input_path, content |-> c]} : c \in InputContents}
    /\ status = "start"
    /\ cause = "none"
    /\ stack = <<>>
    /\ log = <<>>
    /\ handles = {}
    /\ events = <<>>
    /\ mainCalls = NoCalls

(***************************************************************************)
(* Helpers on the call stack of transcribe_audio                           *)
(***************************************************************************)
Depth == Len(stack)
Top == stack[Depth]
SetTop(f) == [stack EXCEPT ![Depth] = f]
Pop(st) == SubSeq(st, 1, Len(st) - 1)

\* the locals of a fresh invocation transcribe_audio(input_path, ...)
NewFrame(p) ==
    [input_path |-> p, pc |-> "open", hdr |-> NoHeader, remaining |-> 0, offset |-> 0,
     transcription |-> <<>>, converted_file |-> NoPath]

\* what the run did, in order: op at call depth d, with the frame count or
\* offset n, the header h and the flag b it concerns
Event(op, d, n) == [op |-> op, depth |-> d, n |-> n, hdr |-> NoHeader, flag |-> FALSE]
EventH(op, d, h) == [op |-> op, depth |-> d, n |-> 0, hdr |-> h, flag |-> FALSE]
EventF(op, d, n, b) == [op |-> op, depth |-> d, n |-> n, hdr |-> NoHeader, flag |-> b]

WavHandle(d) == [kind |-> "wav", depth |-> d]
JsonHandle(d) == [kind |-> "json", depth |-> d]

\* an exception leaves the current statement; nothing in the script catches it
Raise(c) == status' = "raising" /\ cause' = c

InTranscribe(pc) == status = "transcribe" /\ Depth > 0 /\ Top.pc = pc

(***************************************************************************)
(* __main__ and main                                                       *)
(***************************************************************************)
\* parser.parse_args(): a command outside choices ends the process (exit 2)
ParseArgs ==
    /\ status = "start"
    /\ status' = IF argv.command \in Choices THEN "main" ELSE "usage"
    /\ UNCHANGED <<argv, cause, stack, fs, log, handles, events, mainCalls>>

\* main(command=Commands(args.command), ...)
Main ==
    /\ status = "main"
    /\ LET callees == MainMatch(Commands(argv.command))
       IN  /\ mainCalls' = [f \in DOMAIN mainCalls |->
                                mainCalls[f] + IF f \in callees THEN 1 ELSE 0]
           /\ status' = IF "modify_audio" \in callees THEN "modify"
                        ELSE IF "transcribe_audio" \in callees THEN "transcribe"
                        ELSE "done"
           /\ stack' = IF "transcribe_audio" \in callees /\ "modify_audio" \notin callees
                       THEN <<NewFrame(argv.input_path)>> ELSE stack
    /\ UNCHANGED <<argv, cause, fs, log, handles, events>>

(***************************************************************************)
(* modify_audio                                                            *)
(***************************************************************************)
\* audio + volume
ApplyGain(audio, volume) == [audio EXCEPT !.gain = @ + volume]

\* audio.speedup(playback_speed=speed)
Speedup(audio, speed) == [audio EXCEPT !.nframes = @ \div speed]

ModifyAudio ==
    /\ status = "modify"
    /\ IF Exists(fs, argv.input_path) /\ Lookup(fs, argv.input_path).kind = "wav"
       THEN LET audio == Speedup(ApplyGain(FromFile(Lookup(fs, argv.input_path)),
                                           argv.volume), argv.speed)
            IN  /\ fs' = Export(fs, audio, ModifiedPath(argv.input_path))
                /\ log' = Append(log, [level |-> "INFO", msg |-> "modified",
                                       arg |-> Stem(argv.input_path.name)])
                /\ status' = "done"
                /\ cause' = cause
       ELSE \* AudioSegment.from_wav raises
            /\ status' = "error"
            /\ cause' = "modify"
            /\ UNCHANGED <<fs, log>>
    /\ UNCHANGED <<argv, stack, handles, events, mainCalls>>

(***************************************************************************)
(* _convert_to_mono_pcm                                                    *)
(***************************************************************************)
\* the files after the export, the returned path, the exported header and
\* the logged line
ConvertToMonoPcm(files, input_path, sample_rate) ==
    LET audio == ConvertAudio(Lookup(files, input_path), sample_rate)
        save_path == TempPath(input_path)
    IN  [fs |-> Export(files, audio, save_path),
         path |-> save_path,
         hdr |-> audio.hdr,
         line |-> [level |-> "INFO", msg |-> "converted", arg |-> save_path.name]]

(***************************************************************************)
(* transcribe_audio, statement by statement                                *)
(***************************************************************************)
\* leaving `with wave.open(...) as wf`: wf.close()
WaveExitLeak(h, d) == h

WaveExit(h, d) == h \ {WavHandle(d)}

\* with wave.open(str(input_path), "rb") as wf
OpenInput ==
    /\ InTranscribe("open")
    /\ IF Exists(fs, Top.input_path) /\ Lookup(fs, Top.input_path).kind = "wav"
       THEN LET c == Lookup(fs, Top.input_path)
            IN  /\ handles' = handles \cup {WavHandle(Depth)}
                /\ stack' = SetTop([Top EXCEPT !.pc = "check", !.hdr = c.hdr,
                                               !.remaining = c.nframes])
                /\ events' = Append(events, EventH("open", Depth, c.hdr))
                /\ UNCHANGED <<status, cause>>
       ELSE \* FileNotFoundError or wave.Error: the reader closes what it opened
            /\ Raise("open")
            /\ UNCHANGED <<handles, stack, events>>
    /\ UNCHANGED <<argv, fs, log, mainCalls>>

\* the if statement on the header, with logger.warning in its branch
CheckFormat ==
    /\ InTranscribe("check")
    /\ IF NeedsConversion(Top.hdr)
       THEN /\ log' = Append(log, [level |-> "WARNING", msg |-> "format", arg |-> <<>>])
            /\ stack' = SetTop([Top EXCEPT !.pc = "convert"])
            /\ events' = Append(events, Event("warn", Depth, 0))
       ELSE /\ stack' = SetTop([Top EXCEPT !.pc = "model"])
            /\ UNCHANGED <<log, events>>
    /\ UNCHANGED <<argv, status, cause, fs, handles, mainCalls>>

\* converted_file = _convert_to_mono_pcm(input_path=input_path, logger=logger)
Convert ==
    /\ InTranscribe("convert")
    /\ \E ok \in BOOLEAN :
          IF ok
          THEN LET r == ConvertToMonoPcm(fs, Top.input_path, DefaultSampleRate)
               IN  /\ fs' = r.fs
                   /\ log' = Append(log, r.line)
                   /\ stack' = SetTop([Top EXCEPT !.pc = "call", !.converted_file = r.path])
                   /\ events' = Append(events, EventH("convert", Depth, r.hdr))
                   /\ UNCHANGED <<status, cause>>
          ELSE \* decoding or export fails
               /\ Raise("convert")
               /\ UNCHANGED <<fs, log, stack, events>>
    /\ UNCHANGED <<argv, handles, mainCalls>>

\* transcribe_audio(input_path=converted_file, ...): the recursive call
Recurse ==
    /\ InTranscribe("call")
    /\ IF Depth < RecursionLimit
       THEN /\ stack' = Append(SetTop([Top EXCEPT !.pc = "wait"]), NewFrame(Top.converted_file))
            /\ events' = Append(events, Event("call", Depth, 0))
            /\ UNCHANGED <<status, cause>>
       ELSE \* RecursionError
            /\ Raise("recursion")
            /\ UNCHANGED <<stack, events>>
    /\ UNCHANGED <<argv, fs, log, handles, mainCalls>>

\* the outcomes of Model(model_path): without a path the toolkit looks for
\* a default model, which may or may not be there
ModelLoads(model_path) ==
    IF model_path = "models/ru" THEN {TRUE}
    ELSE IF model_path = "models/missing" THEN {FALSE}
    ELSE BOOLEAN

LoadModelSwallow ==
    /\ InTranscribe("model")
    /\ \E ok \in ModelLoads(argv.model_path) :
          IF ok
          THEN /\ stack' = SetTop([Top EXCEPT !.pc = "loop", !.transcription = <<>>])
               /\ events' = Append(events, Event("model", Depth, Top.hdr.framerate))
               /\ UNCHANGED <<status, cause>>
          ELSE /\ cause' = "model"
               /\ stack' = SetTop([Top EXCEPT !.pc = "final"])
               /\ UNCHANGED <<status, events>>
    /\ UNCHANGED <<argv, fs, log, handles, mainCalls>>

\* model = Model(model_path); recognizer = KaldiRecognizer(...); SetWords(True)
LoadModel ==
    /\ InTranscribe("model")
    /\ \E ok \in ModelLoads(argv.model_path) :
          IF ok
          THEN /\ stack' = SetTop([Top EXCEPT !.pc = "loop", !.transcription = <<>>])
               /\ events' = Append(events, Event("model", Depth, Top.hdr.framerate))
               /\ UNCHANGED <<status, cause>>
          ELSE /\ Raise("model")
               /\ UNCHANGED <<stack, events>>
    /\ UNCHANGED <<argv, fs, log, handles, mainCalls>>

\* wf.readframes(4000): the number of frames returned
ReadFrames(remaining) == IF remaining < ChunkFrames THEN remaining ELSE ChunkFrames

\* len(data): frames * channels * bytes per sample
DataLen(nframes, h) == nframes * h.nchannels * h.sampwidth

EndOfStreamShort(data_len) == data_len < ChunkFrames

\* if len(data) == 0: break
EndOfStream(data_len) == data_len = 0

\* recognizer.Result() / recognizer.FinalResult(): JSON text about the audio
\* fed so far; offset is the number of frames fed before the call
RecognizerResult(offset) == JsonDumps([kind |-> "result", offset |-> offset])
RecognizerFinalResult(offset) == JsonDumps([kind |-> "final", offset |-> offset])

AppendResultFirst(transcription, res) == <<JsonLoads(res)>> \o transcription

\* transcription.append(json.loads(res))
AppendResult(transcription, res) == Append(transcription, JsonLoads(res))

\* one iteration of `while True`; boundary is what AcceptWaveform returns
LoopIteration ==
    /\ InTranscribe("loop")
    /\ LET n == ReadFrames(Top.remaining)
           read == Event("read", Depth, n)
       IN  IF EndOfStream(DataLen(n, Top.hdr))
           THEN /\ stack' = SetTop([Top EXCEPT !.pc = "final", !.remaining = @ - n,
                                               !.offset = @ + n])
                /\ events' = Append(events, read)
           ELSE \E boundary \in BOOLEAN :
                  LET fed == Top.offset + n
                  IN  /\ stack' = SetTop([Top EXCEPT
                                !.remaining = @ - n,
                                !.offset = fed,
                                !.transcription =
                                    IF boundary THEN AppendResult(@, RecognizerResult(fed))
                                    ELSE @])
                      /\ events' = events \o <<read, EventF("feed", Depth, Top.offset, boundary)>>
                                    \o (IF boundary THEN <<Event("result", Depth, fed)>>
                                        ELSE <<>>)
    /\ UNCHANGED <<argv, status, cause, fs, log, handles, mainCalls>>

\* res = recognizer.FinalResult(); transcription.append(json.loads(res))
FinalResult ==
    /\ InTranscribe("final")
    /\ stack' = SetTop([Top EXCEPT !.pc = "save",
                                   !.transcription =
                                       AppendResult(@, RecognizerFinalResult(Top.offset))])
    /\ events' = Append(events, Event("final", Depth, Top.offset))
    /\ UNCHANGED <<argv, status, cause, fs, log, handles, mainCalls>>

\* save_path.mkdir(...); with output_file.open("w", encoding="utf-8") as f
OpenOutput ==
    /\ InTranscribe("save")
    /\ \E ok \in BOOLEAN :
          IF ok
          THEN /\ fs' = WriteFile(fs, TranscriptionPath(Top.input_path), EmptyContent)
               /\ handles' = handles \cup {JsonHandle(Depth)}
               /\ stack' = SetTop([Top EXCEPT !.pc = "dump"])
               /\ events' = Append(events, Event("output", Depth, 0))
               /\ UNCHANGED <<status, cause>>
          ELSE /\ Raise("output")
               /\ UNCHANGED <<fs, handles, stack, events>>
    /\ UNCHANGED <<argv, log, mainCalls>>

\* json.dump(transcription, f, ensure_ascii=False, indent=4), then f.close()
\* on leaving the with block, also when the dump raises
DumpJson ==
    /\ InTranscribe("dump")
    /\ handles' = handles \ {JsonHandle(Depth)}
    /\ \E ok \in BOOLEAN :
          IF ok
          THEN /\ fs' = WriteFile(fs, TranscriptionPath(Top.input_path),
                                  TextContent(JsonDumps(Top.transcription)))
               /\ stack' = SetTop([Top EXCEPT !.pc = "exit"])
               /\ events' = Append(events, Event("dump", Depth, Len(Top.transcription)))
               /\ UNCHANGED <<status, cause>>
          ELSE /\ Raise("dump")
               /\ UNCHANGED <<fs, stack, events>>
    /\ UNCHANGED <<argv, log, mainCalls>>

AfterRecursiveCallFallThrough == "model"

\* the statement after the recursive call: return, which leaves the with block
AfterRecursiveCall == "exit"

\* the invocation returns: its with block closes wf, and the caller resumes
ReturnFrame ==
    /\ InTranscribe("exit")
    /\ handles' = WaveExit(handles, Depth)
    /\ events' = Append(events, Event("return", Depth, 0))
    /\ IF Depth = 1
       THEN /\ stack' = <<>>
            /\ status' = "done"
       ELSE /\ stack' = [Pop(stack) EXCEPT ![Depth - 1].pc = AfterRecursiveCall]
            /\ status' = status
    /\ UNCHANGED <<argv, cause, fs, log, mainCalls>>

\* an exception propagates: each with block on the way closes its reader,
\* no frame handles it, and the process ends with a traceback
Unwind ==
    /\ status = "raising"
    /\ IF Depth = 0
       THEN /\ status' = "error"
            /\ UNCHANGED <<stack, handles, events>>
       ELSE /\ handles' = WaveExit(handles, Depth)
            /\ stack' = Pop(stack)
            /\ events' = Append(events, Event("raise", Depth, 0))
            /\ status' = status
    /\ UNCHANGED <<argv, cause, fs, log, mainCalls>>

Next ==
    \/ ParseArgs
    \/ Main
    \/ ModifyAudio
    \/ OpenInput
    \/ CheckFormat
    \/ Convert
    \/ Recurse
    \/ LoadModel
    \/ LoopIteration
    \/ FinalResult
    \/ OpenOutput
    \/ DumpJson
    \/ ReturnFrame
    \/ Unwind

Spec == Init /\ [][Next]_vars

(***************************************************************************)
(* _convert_to_mono_pcm on its own: applied to any WAV file, valid ones    *)
(* included, and then again to the file it produced                        *)
(***************************************************************************)
\* number of successive applications
MaxApplications == 2

InitConv ==
    /\ argv \in {a \in Argvs : a.command = "transcribe" /\ a.model_path = "None"}
    /\ fs \in {{[path |-> argv.input_path, content |-> WavContent(h, n, 0)]} :
                  h \in Headers, n \in FrameCounts}
    /\ status = "convert_only"
    /\ cause = "none"
    /\ stack = <<NewFrame(argv.input_path)>>
    /\ log = <<>>
    /\ handles = {}
    /\ events = <<>>
    /\ mainCalls = NoCalls

ApplyConvert ==
    /\ status = "convert_only"
    /\ Len(events) < MaxApplications
    /\ LET r == ConvertToMonoPcm(fs, Top.input_path, DefaultSampleRate)
       IN  /\ fs' = r.fs
           /\ log' = Append(log, r.line)
           /\ stack' = <<NewFrame(r.path)>>
           /\ events' = Append(events, EventH("convert", 0, r.hdr))
    /\ UNCHANGED <<argv, status, cause, handles, mainCalls>>

NextConv == ApplyConvert

SpecConv == InitConv /\ [][NextConv]_vars

(***************************************************************************)
(* Properties                                                              *)
(***************************************************************************)
\* the format the recognizer needs: mono, 16-bit, 8 kHz or 16 kHz
IsValid(h) == h.nchannels = 1 /\ h.sampwidth = 2 /\ h.framerate \in {8000, 16000}

EventsOf(op) == {i \in 1 .. Len(events) : events[i].op = op}
EventsAt(op, d) == {i \in EventsOf(op) : events[i].depth = d}
IsRead(e) == e.op = "read"
IsFeed(e) == e.op = "feed"
IsResult(e) == e.op = "result"

RECURSIVE SumN(_, _)
SumN(seq, k) == IF k = 0 THEN 0 ELSE seq[k].n + SumN(seq, k - 1)

ResultsDir(sub) == MAIN_PATH \o <<"results", sub>>
FilesUnder(sub) == {f \in fs : f.path.dir = ResultsDir(sub)}

RecognitionPcs == {"model", "loop", "final", "save", "dump"}
ConversionPcs == {"convert", "call", "wait"}

\* C1: an invocation of transcribe_audio that has read the header goes on to
\* recognition without a warning exactly when the header is one channel,
\* two bytes per sample and 8000 or 16000 Hz; with any other header it logs
\* the warning and takes the conversion branch.
C1_ValidityCheck ==
    \A i \in 1 .. Len(stack) :
        LET f == stack[i]
        IN  f.pc \notin {"open", "check"} =>
              /\ IsValid(f.hdr) <=> EventsAt("warn", i) = {}
              /\ f.pc \in RecognitionPcs => IsValid(f.hdr)
              /\ f.pc \in ConversionPcs => ~IsValid(f.hdr)
              /\ IsValid(f.hdr) => EventsAt("convert", i) = {}
              /\ Cardinality({k \in 1 .. Len(log) : log[k].level = "WARNING"})
                    = Cardinality(EventsOf("warn"))

C1_Witness ==
    /\ Len(stack) = 2
    /\ stack[1].pc = "wait" /\ stack[1].hdr.framerate = 44100
    /\ stack[2].pc = "loop" /\ stack[2].hdr.framerate = 16000
    /\ argv.input_path.name = <<"a">>

\* C2: in one run the conversion step happens at most once, since the file
\* the converter writes passes the validity check.
C2_ConversionAtMostOnce ==
    /\ Cardinality(EventsOf("convert")) <= 1
    /\ \A i \in EventsOf("convert") : IsValid(events[i].hdr)

\* C3: the JSON array written holds the N results of the chunks on which
\* the recognizer signalled a boundary, in the order the chunks were read,
\* followed by the final result: N + 1 elements, the final one last, also
\* when N = 0.
C3_OutputOrder ==
    \A f \in FilesUnder("transcriptions") :
        f.content.kind = "text" =>
            LET L == JsonLoads(f.content.body)
                R == SelectSeq(events, IsResult)
                F == SelectSeq(events, IsFeed)
                B == SelectSeq(F, LAMBDA e : e.flag)
            IN  /\ Len(L) = Len(B) + 1
                /\ L[Len(L)].kind = "final"
                /\ \A i \in 1 .. Len(B) :
                      /\ L[i].kind = "result"
                      /\ L[i] = JsonLoads(RecognizerResult(R[i].n))
                      /\ B[i].n < L[i].offset /\ L[i].offset <= B[i].n + ChunkFrames
                      /\ i > 1 => B[i - 1].n < B[i].n

C3_Witness ==
    /\ status = "done"
    /\ \E f \in FilesUnder("transcriptions") :
          f.content.kind = "text" /\ Len(JsonLoads(f.content.body)) = 3
    /\ Cardinality(EventsOf("result")) = 2

\* C4: whenever main runs it invokes exactly one of modify_audio and
\* transcribe_audio, the one its command names; a command outside the
\* choices never reaches main.
C4_ExactlyOneOperation ==
    /\ status \in {"start", "main", "usage"} => mainCalls = NoCalls
    /\ status \notin {"start", "main", "usage"} =>
          /\ mainCalls.modify_audio + mainCalls.transcribe_audio = 1
          /\ mainCalls.modify_audio = 1 <=> argv.command = "modify"
          /\ mainCalls.transcribe_audio = 1 <=> argv.command = "transcribe"
    /\ status = "modify" => stack = <<>>
    /\ stack # <<>> /\ status # "convert_only" => mainCalls.transcribe_audio = 1

C4_Witness ==
    /\ status = "done"
    /\ argv.command = "transcribe"
    /\ mainCalls = [modify_audio |-> 0, transcribe_audio |-> 1]
    /\ FilesUnder("transcriptions") # {}

\* C5: every file written under results/ is named after the stem of the
\* file given on the command line: <stem>.wav under modified and temp,
\* <stem>.json under transcriptions, also after the recursive call on the
\* temp file.
C5_StemPreserved ==
    LET stem == Stem(argv.input_path.name)
    IN  \A f \in fs :
          f.path # argv.input_path =>
             /\ Stem(f.path.name) = stem
             /\ \/ f.path.dir = ResultsDir("modified") /\ f.path.name = stem \o DotWav
                \/ f.path.dir = ResultsDir("temp") /\ f.path.name = stem \o DotWav
                \/ f.path.dir = ResultsDir("transcriptions") /\ f.path.name = stem \o DotJson

C5_Witness ==
    /\ status = "done"
    /\ argv.input_path = [dir |-> <<"in", "sub">>, name |-> <<"a", ".", "b", ".", "c">>]
    /\ FilesUnder("temp") # {}
    /\ \E f \in FilesUnder("transcriptions") : f.content.kind = "text"

\* C6: converting a file that is already valid gives a valid file, and
\* converting that file again leaves its header as it is.
C6_ConvertValidStaysValid ==
    status = "convert_only" /\ IsValid(Lookup(fs, argv.input_path).hdr) =>
        /\ Len(events) >= 1 =>
              /\ IsValid(events[1].hdr)
              /\ Lookup(fs, Top.input_path).hdr = events[Len(events)].hdr
        /\ Len(events) >= 2 => events[2].hdr = events[1].hdr

C6_Witness ==
    /\ status = "convert_only"
    /\ Lookup(fs, argv.input_path).hdr = [nchannels |-> 1, sampwidth |-> 2, framerate |-> 8000]
    /\ Len(events) = 2
    /\ Lookup(fs, Top.input_path).hdr = [nchannels |-> 1, sampwidth |-> 2, framerate |-> 16000]

\* C7: a transcribe run ends either with the transcription written or with
\* the error propagated: once opening the input, the conversion, the
\* recursion or loading the model has failed, the run only unwinds, nothing
\* is tried again and no transcription file exists.
C7_AllOrError ==
    /\ cause # "none" => status \in {"raising", "error"}
    /\ status = "error" => stack = <<>>
    /\ status \in {"raising", "error"} /\ cause \in {"open", "convert", "recursion", "model"} =>
          /\ FilesUnder("transcriptions") = {}
          /\ EventsOf("output") = {} /\ EventsOf("feed") = {} /\ EventsOf("final") = {}
    /\ status = "done" /\ argv.command = "transcribe" =>
          \E f \in FilesUnder("transcriptions") : f.content.kind = "text"
    /\ Cardinality(EventsOf("model")) <= 1
    /\ \A d \in 1 .. RecursionLimit :
          /\ Cardinality(EventsAt("open", d)) <= 1
          /\ Cardinality(EventsAt("convert", d)) <= 1

C7_Witness ==
    /\ status = "error"
    /\ cause = "model"
    /\ argv.model_path = "models/missing"
    /\ EventsOf("convert") # {}
    /\ FilesUnder("transcriptions") = {}

\* C8: a reader or an output file that an invocation of transcribe_audio
\* opened is open only while that invocation is active, and nothing is open
\* once the top-level call has returned or raised.
C8_HandlesScoped ==
    /\ \A h \in handles :
          /\ h.depth <= Len(stack)
          /\ h.kind = "json" => h.depth = Len(stack) /\ stack[h.depth].pc = "dump"
    /\ status \in {"done", "error", "usage"} => handles = {}

C8_Witness ==
    /\ status = "error"
    /\ cause = "dump"
    /\ Cardinality(EventsOf("open")) = 2
    /\ handles = {}

\* C9: the loop reads chunks of at most 4000 frames; each non-empty chunk
\* is fed once, at the offset where the previous one ended; the first empty
\* read ends the loop and is not fed; a result is appended exactly for the
\* chunks on which the recognizer signalled a boundary; the final result
\* is asked for only after the empty read.
C9_ChunkLoop ==
    LET R == SelectSeq(events, IsRead)
        F == SelectSeq(events, IsFeed)
    IN  /\ \A i \in 1 .. Len(R) :
              /\ R[i].n <= ChunkFrames
              /\ R[i].n = 0 => i = Len(R)
        /\ Len(F) = Cardinality({i \in 1 .. Len(R) : R[i].n > 0})
        /\ \A i \in 1 .. Len(F) : F[i].n = SumN(R, i - 1)
        /\ \A i \in 1 .. Len(events) :
              /\ events[i].op = "feed" =>
                    /\ events[i - 1].op = "read" /\ events[i - 1].n > 0
                    /\ events[i].flag <=>
                          (i < Len(events) /\ events[i + 1].op = "result")
              /\ events[i].op = "result" => events[i - 1].op = "feed"
              /\ events[i].op = "final" =>
                    /\ events[i - 1].op = "read" /\ events[i - 1].n = 0
                    /\ events[i].n = SumN(R, Len(R))
                    /\ Len(stack) >= events[i].depth =>
                          events[i].n = Lookup(fs, stack[events[i].depth].input_path).nframes
        /\ \A d \in 1 .. Len(stack) :
              stack[d].pc \in {"loop", "final"} =>
                 /\ Len(stack[d].transcription) = Cardinality({i \in 1 .. Len(F) : F[i].flag})
                 /\ stack[d].offset = SumN(R, Len(R))

C9_Witness ==
    /\ Len(stack) = 1
    /\ stack[1].pc = "save"
    /\ Lookup(fs, argv.input_path).nframes = ChunkFrames + 1
    /\ Cardinality(EventsOf("read")) = 3
    /\ Cardinality(EventsOf("feed")) = 2
    /\ Cardinality(EventsOf("result")) = 1

\* C10: the transcription is written once, by the invocation whose input
\* passed the check; an invocation that converted returns right after its
\* recursive call and loads no model, reads no frames and writes no JSON;
\* a valid original input leaves no temp file and logs no warning.
C10_OnlyValidLevelWrites ==
    /\ Cardinality(EventsOf("dump")) <= 1
    /\ status = "done" /\ argv.command = "transcribe" => Cardinality(EventsOf("dump")) = 1
    /\ \A i \in 1 .. Len(events) :
          /\ events[i].op \in {"model", "read", "feed", "result", "final", "output", "dump"} =>
                /\ EventsAt("warn", events[i].depth) = {}
                /\ EventsAt("convert", events[i].depth) = {}
          /\ events[i].op = "return" /\ events[i].depth > 1 /\ i < Len(events) =>
                events[i + 1] = Event("return", events[i].depth - 1, 0)
    /\ \A d \in 1 .. Len(stack) : d < Len(stack) => stack[d].pc = "wait"
    /\ argv.command = "transcribe" /\ Exists(fs, argv.input_path)
         /\ IsValid(Lookup(fs, argv.input_path).hdr) =>
            /\ FilesUnder("temp") = {}
            /\ \A k \in 1 .. Len(log) : log[k].level # "WARNING"

C10_Witness ==
    /\ status = "done"
    /\ Cardinality(EventsOf("dump")) = 1
    /\ EventsAt("dump", 2) # {}
    /\ EventsAt("return", 1) # {}
    /\ FilesUnder("temp") # {}

====
